---- MODULE Spec2Model ----
(***************************************************************************)
(* GenericToolbar: reconciliation of the pending (local) search text and   *)
(* filter list with the applied (parent-owned) ones, the 800 ms search     *)
(* debounce, and the per-filter-type commit policy.                         *)
(*                                                                         *)
(* One action per event handler of the component.  A handler runs against  *)
(* the state of the last render; the callbacks it invokes are recorded in  *)
(* `calls`, the parent adopts them (searchValue / activeFilters are React  *)
(* state of the parent, set by the callbacks) and the two sync effects of  *)
(* the toolbar run in the re-render that follows, all inside the action.   *)
(*                                                                         *)
(* Time is counted in ticks; the debounce window is DebounceTicks ticks.   *)
(* A timer whose window has elapsed fires before anything else happens.    *)
(***************************************************************************)
EXTENDS Integers, Sequences, FiniteSets, TLC

VARIABLES
    availableFilters,   \* prop: the filter definitions of this page
    searchValue,        \* prop: applied search text (parent state)
    activeFilters,      \* prop: applied filter list (parent state)
    localSearchValue,   \* useState: pending search text
    pendingFilters,     \* useState: pending filter list
    filterMode,         \* useState: "basic" | "advanced"
    filtersExpanded,    \* useState: filter panel open
    timers,             \* outstanding setTimeout tasks: [id, value, left]
    searchDebounceRef,  \* useRef: id of the last timer set, 0 = null
    mounted,            \* the component instance is mounted
    lastOp,             \* history: the last user operation and its arguments
    calls,              \* history: callbacks invoked by the last user operation
    late,               \* history: callbacks invoked by timers since then
    flushed,            \* history: ids of the pending value edits it committed
    quiet,              \* history: ticks since the last keystroke of the burst
    burstN,             \* history: keystrokes of the current typing burst
    burstCalls,         \* history: onSearchChange arguments since the burst began
    representedFilters, \* useFilterController: the triples the controller represents
    ctlPrev,            \* history: the controller operation before the last one
    exportDialogOpen,   \* useState: the export dialog is open
    exportType,         \* useState: "all" | "results"
    exportMethod,       \* ExportDialog useState: "download" | "email"
    email,              \* ExportDialog useState: the address typed
    exports,            \* history: onExportAll / onExportResults calls of the last operation
    coRepresentedFilters, \* useFilterController: the triples of a second controller
    DEFAULT_PINNED_MENUS, \* menu preference store: the module's array of default ids
    localStorage        \* the item stored under MENU_PREFERENCES_KEY

vars == <<availableFilters, searchValue, activeFilters, localSearchValue,
          pendingFilters, filterMode, filtersExpanded, timers,
          searchDebounceRef, mounted, lastOp, calls, late, flushed, quiet,
          burstN, burstCalls, representedFilters, ctlPrev, exportDialogOpen,
          exportType, exportMethod, email, exports, coRepresentedFilters,
          DEFAULT_PINNED_MENUS, localStorage>>

\* the state of the export dialog and its history
exportVars == <<exportDialogOpen, exportType, exportMethod, email, exports>>

\* the state of the filter controller and its history
controllerVars == <<representedFilters, coRepresentedFilters, ctlPrev>>

\* the state of the menu preference store
menuVars == <<DEFAULT_PINNED_MENUS, localStorage>>

\* the search and filter state of the toolbar and its history
toolbarVars ==
    <<availableFilters, searchValue, activeFilters, localSearchValue,
      pendingFilters, filterMode, filtersExpanded, timers, searchDebounceRef,
      mounted, calls, late, flushed, quiet, burstN, burstCalls>>

----------------------------------------------------------------------------
(* Bounds of the model *)

\* the 800 ms debounce window, in clock ticks
DebounceTicks == 2
\* outstanding timers the model keeps (the component itself never has two)
MaxTimers == 2
\* keystrokes counted in one burst (the count saturates here)
MaxBurst == 2
\* the readings of Date.now() an applyFilters call can see
MaxNow == 2

----------------------------------------------------------------------------
(* Menu preference store: the values it starts from *)

\* the array literal DEFAULT_PINNED_MENUS is initialised with
DefaultPinnedMenus ==
    <<"dashboard", "visitor-management", "room-booking", "policy-library",
      "expense-management", "user-management", "my-profile", "leave-holiday",
      "system-settings", "attendance-management", "project-list">>

\* localStorage.getItem gives null: nothing is stored
NoItem == [present |-> FALSE, pinnedMenuIds |-> <<>>, menuOrder |-> <<>>]

----------------------------------------------------------------------------
(* Values: JavaScript values a filter can hold, tagged by kind *)

Str(s) == [k |-> "str", s |-> s]
\* a number is kept as its numeral, the text JSON.stringify gives it
Num(n) == [k |-> "num", n |-> n]
Bool(b) == [k |-> "bool", b |-> b]
Arr(a) == [k |-> "arr", a |-> a]
Obj(keys, vals) == [k |-> "obj", keys |-> keys, vals |-> vals]
Undefined == [k |-> "undef"]


RECURSIVE Join(_)
Join(ss) ==
    IF ss = <<>> THEN <<>>
    ELSE IF Len(ss) = 1 THEN Head(ss)
    ELSE Head(ss) \o <<",">> \o Join(Tail(ss))

\* JSON.stringify of a scalar, as a sequence of tokens
JsonScalar(v) ==
    CASE v.k = "str" -> <<"\"", v.s, "\"">>
      [] v.k = "num" -> <<v.n>>
      [] v.k = "bool" -> <<IF v.b THEN "true" ELSE "false">>
      [] OTHER -> <<"null">>

\* JSON.stringify of a value; undefined serializes to undefined (no text)
JsonStringify(v) ==
    CASE v.k = "undef" -> <<"undefined">>
      [] v.k = "arr" -> <<"[">> \o Join([i \in 1..Len(v.a) |-> JsonScalar(v.a[i])]) \o <<"]">>
      [] v.k = "obj" ->
            <<"{">>
            \o Join([i \in 1..Len(v.keys) |->
                      <<"\"", v.keys[i], "\"", ":">> \o JsonScalar(v.vals[i])])
            \o <<"}">>
      [] OTHER -> JsonScalar(v)

\* JSON.stringify of one ActiveFilter object
JsonFilter(f) ==
    <<"{", "\"id\":", f.id, ",", "\"filterId\":", f.filterId, ",",
      "\"operator\":", f.operator, ",", "\"value\":">>
    \o JsonStringify(f.value) \o <<"}">>

\* JSON.stringify of an ActiveFilter[]
JsonList(l) == <<"[">> \o Join([i \in 1..Len(l) |-> JsonFilter(l[i])]) \o <<"]">>

----------------------------------------------------------------------------
(* Filter definitions and the operator catalog *)

\* DEFAULT_OPERATORS[type], the operator values in catalog order
DEFAULT_OPERATORS(type) ==
    CASE type = "text" -> <<"regex", "eq">>
      [] type = "number" -> <<"eq", "gt", "gte", "lt", "lte">>
      [] type = "numberrange" -> <<"gte">>
      [] type = "select" -> <<"eq">>
      [] type = "multiselect" -> <<"in", "all", "nin">>
      [] type = "boolean" -> <<"eq", "exists">>
      [] type = "checkbox" -> <<"eq">>
      [] type = "date" -> <<"today", "on", ">=", "<=", "between">>

\* An AvailableFilter.  hasOperators = FALSE: `operators` undefined;
\* defaultOperator = "": undefined (or empty, equally falsy).
FilterDef(id, type, hasOps, ops, defOp, options) ==
    [id |-> id, type |-> type, hasOperators |-> hasOps, operators |-> ops,
     defaultOperator |-> defOp, options |-> options]

NameDef == FilterDef("name", "text", FALSE, <<>>, "", <<>>)
AgeDef == FilterDef("age", "number", TRUE, <<"eq", "gt">>, "gt", <<>>)
\* a definition whose defaultOperator is not one of its own operators
RankDef == FilterDef("rank", "number", TRUE, <<"eq">>, "lt", <<>>)
PriceDef == FilterDef("price", "numberrange", FALSE, <<>>, "", <<>>)
StatusDef == FilterDef("status", "select", FALSE, <<>>, "", <<"o1">>)
TagsDef == FilterDef("tags", "multiselect", TRUE, <<"in", "all">>, "", <<"o1", "o2">>)
CreatedDef == FilterDef("created", "date", TRUE, <<"today", "on", "between">>, "", <<>>)
\* a date filter with a default operator
DueDef == FilterDef("due", "date", TRUE, <<"on", "between">>, "on", <<>>)
FlagDef == FilterDef("flag", "boolean", FALSE, <<>>, "", <<>>)
DoneDef == FilterDef("done", "checkbox", FALSE, <<>>, "", <<>>)

\* The pages the toolbar is checked on: each a list of filter definitions
Configs ==
    { <<NameDef, StatusDef>>, <<AgeDef>>, <<CreatedDef>>, <<PriceDef>>,
      <<TagsDef>>, <<FlagDef>>, <<DoneDef>>, <<RankDef>>, <<DueDef>> }

\* What the user can type or pick
SearchStrings == {"", "a", "b"}
TextInputs == {"", "x"}
NumberInputs == {"", "0", "1"}
DateInputs == {"", "d1"}

\* Instance ids: `filter-${Date.now()}`, fresh at every add
IdPool == <<"f1", "f2", "f3">>

Range(s) == {s[i] : i \in 1..Len(s)}

\* availableFilters.find(f => f.id === filterId): the index, 0 if none
FindDef(filterId) ==
    IF \E i \in 1..Len(availableFilters) : availableFilters[i].id = filterId
    THEN CHOOSE i \in 1..Len(availableFilters) :
            /\ availableFilters[i].id = filterId
            /\ \A j \in 1..(i - 1) : availableFilters[j].id # filterId
    ELSE 0

\* filterDef.operators || DEFAULT_OPERATORS[filterDef.type]
OperatorsOf(def) ==
    IF def.hasOperators THEN def.operators ELSE DEFAULT_OPERATORS(def.type)

\* filterDef.defaultOperator || operators[0]?.value
DefaultOperatorOf(def) ==
    IF def.defaultOperator # "" THEN def.defaultOperator
    ELSE IF Len(OperatorsOf(def)) > 0 THEN OperatorsOf(def)[1]
    ELSE "undefined"

\* the commit policy the component documents for a type
DeferredTypes == {"text", "number", "numberrange"}

----------------------------------------------------------------------------
(* FilterFieldRenderer: the values a value field can emit through onChange *)

\* {...obj, key: scalar} on an object that has the key
ObjSet(v, key, scalar) ==
    Obj(v.keys, [i \in 1..Len(v.keys) |->
                    IF v.keys[i] = key THEN scalar ELSE v.vals[i]])

ObjGet(v, key) == v.vals[CHOOSE i \in 1..Len(v.keys) : v.keys[i] = key]

\* value || { from: '', to: '' }   and   value || { min: '', max: '' }
RangeOr(value, k1, k2) ==
    IF value.k = "obj" THEN value ELSE Obj(<<k1, k2>>, <<Str(""), Str("")>>)

\* selected values with `option` toggled: removed when present, else appended
ToggleOption(arr, option) ==
    IF option \in Range(arr)
    THEN SelectSeq(arr, LAMBDA x : x # option)
    ELSE Append(arr, option)

\* e.target.value ? Number(e.target.value) : ''
NumberOrEmpty(n) == IF n = "" THEN Str("") ELSE Num(n)

\* a number input shows value || '': the numeral, nothing for 0 or ''
ShownNumber(value) == IF value.k = "num" /\ value.n # "0" THEN value.n ELSE ""

\* the True/False select shows value?.toString() || 'true'
ShownBool(value) == IF value.k = "bool" THEN value.b ELSE TRUE

FieldEmits(def, operator, value) ==
    IF operator = "today" THEN {}
    ELSE IF operator = "exists" THEN {Bool(~ShownBool(value))}
    ELSE CASE def.type = "text" ->
                {Str(t) : t \in TextInputs \ {IF value.k = "str" THEN value.s ELSE ""}}
           [] def.type = "number" ->
                {NumberOrEmpty(n) : n \in NumberInputs \ {ShownNumber(value)}}
           [] def.type = "select" ->
                LET selectValue == IF value.k = "arr" THEN value.a ELSE <<>>
                IN  {Arr(ToggleOption(selectValue, Str(o))) : o \in Range(def.options)}
           [] def.type = "multiselect" ->
                LET currentValues == IF value.k = "arr" THEN value.a ELSE <<>>
                    shown == IF currentValues # <<>> THEN {currentValues[1]} ELSE {}
                IN  {Arr(ToggleOption(currentValues, Str(o))) :
                        o \in {x \in Range(def.options) : Str(x) \notin shown}}
           [] def.type = "date" ->
                LET dateValue == RangeOr(value, "from", "to")
                IN  {ObjSet(dateValue, "from", Str(d)) :
                        d \in DateInputs \ {ObjGet(dateValue, "from").s}}
                    \cup
                    (IF operator = "between"
                     THEN {ObjSet(dateValue, "to", Str(d)) :
                            d \in DateInputs \ {ObjGet(dateValue, "to").s}}
                     ELSE {})
           [] def.type = "numberrange" ->
                LET numberRangeValue == RangeOr(value, "min", "max")
                IN  {ObjSet(numberRangeValue, "min", NumberOrEmpty(n)) :
                        n \in NumberInputs \ {ShownNumber(ObjGet(numberRangeValue, "min"))}}
                    \cup
                    {ObjSet(numberRangeValue, "max", NumberOrEmpty(n)) :
                        n \in NumberInputs \ {ShownNumber(ObjGet(numberRangeValue, "max"))}}
           [] def.type \in {"checkbox", "boolean"} -> {Bool(~ShownBool(value))}
           [] OTHER -> {}

\* the fields that carry onKeyDown={handleKeyDown}
FieldHasEnterKey(def, operator) ==
    /\ operator \notin {"today", "exists"}
    /\ def.type \in {"text", "number", "numberrange"}

----------------------------------------------------------------------------
(* Derived values of a render *)

\* the first applied filter with this filterId, Undefined's holder if none
AppliedValueOf(filterId) ==
    IF \E i \in 1..Len(activeFilters) : activeFilters[i].filterId = filterId
    THEN activeFilters[CHOOSE i \in 1..Len(activeFilters) :
            /\ activeFilters[i].filterId = filterId
            /\ \A j \in 1..(i - 1) : activeFilters[j].filterId # filterId].value
    ELSE Undefined

\* variant: only text filters are looked at
hasPendingTextFilters_TextOnly ==
    \E i \in 1..Len(pendingFilters) :
        LET pf == pendingFilters[i]
            d == FindDef(pf.filterId)
        IN  /\ d # 0
            /\ availableFilters[d].type = "text"
            /\ JsonStringify(pf.value) # JsonStringify(AppliedValueOf(pf.filterId))

hasPendingTextFilters ==
    \E i \in 1..Len(pendingFilters) :
        LET pf == pendingFilters[i]
            d == FindDef(pf.filterId)
        IN  /\ d # 0
            /\ availableFilters[d].type \in {"text", "number", "numberrange"}
            /\ JsonStringify(pf.value) # JsonStringify(AppliedValueOf(pf.filterId))

hasUnappliedSearchChange == localSearchValue # searchValue

hasUnappliedFilterChanges == JsonList(pendingFilters) # JsonList(activeFilters)

hasUnappliedTextChanges == hasUnappliedSearchChange \/ hasPendingTextFilters

availableFiltersToAdd ==
    SelectSeq(availableFilters,
              LAMBDA af : ~\E i \in 1..Len(pendingFilters) :
                              pendingFilters[i].filterId = af.id)

\* is this applied filter counted by the badge
CountsAsActive(f) ==
    IF f.operator = "today" THEN TRUE
    ELSE IF f.value.k \in {"null", "undef"} \/ f.value = Str("") THEN FALSE
    ELSE IF f.value.k = "arr" /\ f.value.a = <<>> THEN FALSE
    ELSE IF f.value.k = "obj"
         THEN \E i \in 1..Len(f.value.keys) :
                /\ f.value.keys[i] \in {"from", "to", "min", "max"}
                /\ f.value.vals[i] \notin {Str(""), Num("0"), Bool(FALSE)}
                /\ f.value.vals[i].k \notin {"null", "undef"}
    ELSE TRUE

activeFilterCount == Len(SelectSeq(activeFilters, CountsAsActive))

\* filterMode === 'basic' && filterDef.defaultOperator ? defaultOperator : operator
effectiveOperator(def, activeFilter) ==
    IF filterMode = "basic" /\ def.defaultOperator # ""
    THEN def.defaultOperator
    ELSE activeFilter.operator

----------------------------------------------------------------------------
(* Callbacks, the parent, and the debounce timer *)

SearchCall(v) == [cb |-> "search", s |-> v, f |-> <<>>]
FiltersCall(l) == [cb |-> "filters", s |-> "", f |-> l]

SearchCallsOf(cs) == SelectSeq(cs, LAMBDA c : c.cb = "search")
FiltersCallsOf(cs) == SelectSeq(cs, LAMBDA c : c.cb = "filters")

\* the parent page: onSearchChange={setSearchTerm}, searchValue={searchTerm}
ParentSearchValue(cs) ==
    IF SearchCallsOf(cs) # <<>>
    THEN SearchCallsOf(cs)[Len(SearchCallsOf(cs))].s
    ELSE searchValue

\* the parent page keeps the list onFiltersChange hands it as activeFilters
ParentActiveFilters(cs) ==
    IF FiltersCallsOf(cs) # <<>>
    THEN FiltersCallsOf(cs)[Len(FiltersCallsOf(cs))].f
    ELSE activeFilters

\* useEffect(() => setLocalSearchValue(searchValue), [searchValue])
SyncLocalSearch(newSearchValue, local) ==
    IF newSearchValue # searchValue THEN newSearchValue ELSE local

\* variant: the effect is missing, the pending list stays as the handler left it
SyncPendingFilters_Keep(cs, pending) == pending

\* useEffect(() => setPendingFilters(activeFilters || []), [activeFilters]):
\* every list a callback hands over is a new array, so the effect runs
SyncPendingFilters(cs, pending) ==
    IF FiltersCallsOf(cs) # <<>> THEN ParentActiveFilters(cs) ELSE pending

\* if (searchDebounceRef.current) clearTimeout(searchDebounceRef.current)
ClearDebounce(ts) ==
    IF searchDebounceRef # 0 THEN {t \in ts : t.id # searchDebounceRef} ELSE ts

NoDueTimer == \A t \in timers : t.left > 0

FreshTimerId(ts) ==
    CHOOSE n \in 1..(MaxTimers + 1) :
        /\ \A t \in ts : t.id # n
        /\ \A m \in 1..(n - 1) : \E t \in ts : t.id = m

Min(a, b) == IF a < b THEN a ELSE b

\* History: the pending value edits of deferred-type filters, i.e. the pending
\* filters whose value differs from the applied filter of the same instance
\* (from '', the value a filter is added with, when it was never applied)
PendingEdits ==
    {pendingFilters[i] : i \in
        {k \in 1..Len(pendingFilters) :
            /\ FindDef(pendingFilters[k].filterId) # 0
            /\ availableFilters[FindDef(pendingFilters[k].filterId)].type
                    \in DeferredTypes
            /\ pendingFilters[k].value #
                  (IF \E j \in 1..Len(activeFilters) :
                          activeFilters[j].id = pendingFilters[k].id
                   THEN activeFilters[CHOOSE j \in 1..Len(activeFilters) :
                          activeFilters[j].id = pendingFilters[k].id].value
                   ELSE Str(""))}}

\* History: the callbacks cs hand filter e, with its pending value, to the parent
PassedTo(e, cs) ==
    \E n \in 1..Len(cs) :
        /\ cs[n].cb = "filters"
        /\ \E k \in 1..Len(cs[n].f) :
              cs[n].f[k].id = e.id /\ cs[n].f[k].value = e.value

Op(name, type, id, val, arg) ==
    [op |-> name, type |-> type, id |-> id, val |-> val, arg |-> arg]

\* One event handler: its own state updates, the callbacks it invoked (cs),
\* the parent's adoption of them and the sync effects of the next render.
Handler(o, newLocal, newPending, newTimers, newRef, cs) ==
    /\ mounted
    /\ NoDueTimer
    /\ searchValue' = ParentSearchValue(cs)
    /\ activeFilters' = ParentActiveFilters(cs)
    /\ localSearchValue' = SyncLocalSearch(ParentSearchValue(cs), newLocal)
    /\ pendingFilters' = SyncPendingFilters(cs, newPending)
    /\ timers' = newTimers
    /\ searchDebounceRef' = newRef
    /\ lastOp' = o
    /\ calls' = cs
    /\ late' = <<>>
    /\ flushed' = {e.id : e \in {x \in PendingEdits : PassedTo(x, cs)}}
    /\ quiet' = 0
    /\ LET continues == o.op = "searchInput" /\ burstN > 0 /\ quiet < DebounceTicks
       IN  /\ burstN' = IF o.op # "searchInput" THEN 0
                        ELSE IF continues THEN Min(burstN + 1, MaxBurst)
                        ELSE 1
           /\ burstCalls' = IF continues THEN burstCalls ELSE <<>>
    /\ UNCHANGED <<availableFilters, mounted, controllerVars, exportVars, menuVars>>

NoVal == Undefined

----------------------------------------------------------------------------
(* Search box *)

\* variant: the keystroke does not clear the previous timer
KeptOnInput_NoClear == timers

\* the timers a keystroke leaves standing: the previous one is cleared
KeptOnInput == ClearDebounce(timers)

\* setLocalSearchValue(value); clear the timer; set a new one of 800 ms
handleSearchInputChange(value) ==
    /\ value # localSearchValue
    /\ Cardinality(timers) < MaxTimers
    /\ LET kept == KeptOnInput
           id == FreshTimerId(kept)
       IN  Handler(Op("searchInput", "", "", NoVal, value),
                   value, pendingFilters,
                   kept \cup {[id |-> id, value |-> value, left |-> DebounceTicks]},
                   id, <<>>)
    /\ UNCHANGED <<filterMode, filtersExpanded>>

handleSearchKeyDown ==
    /\ Handler(Op("searchEnter", "", "", NoVal, localSearchValue),
               localSearchValue, pendingFilters, ClearDebounce(timers),
               searchDebounceRef, <<SearchCall(localSearchValue)>>)
    /\ UNCHANGED <<filterMode, filtersExpanded>>

----------------------------------------------------------------------------
(* Apply Filters button, and Enter in a value field *)

\* variant: both callbacks are invoked whether or not anything is pending
ApplyFiltersCalls_Always ==
    <<SearchCall(localSearchValue), FiltersCall(pendingFilters)>>

\* the callbacks of handleApplyFilters, in call order
ApplyFiltersCalls ==
    (IF hasUnappliedSearchChange THEN <<SearchCall(localSearchValue)>> ELSE <<>>)
    \o (IF hasUnappliedFilterChanges THEN <<FiltersCall(pendingFilters)>> ELSE <<>>)

ApplyFiltersTimers ==
    IF hasUnappliedSearchChange THEN ClearDebounce(timers) ELSE timers

handleApplyFilters(o) ==
    /\ Handler(o, localSearchValue, pendingFilters, ApplyFiltersTimers,
               searchDebounceRef, ApplyFiltersCalls)
    /\ UNCHANGED <<filterMode, filtersExpanded>>

\* the row of pendingFilters[i] is rendered: panel open, definition found
RowShown(i) ==
    /\ filtersExpanded
    /\ FindDef(pendingFilters[i].filterId) # 0

DefOf(i) == availableFilters[FindDef(pendingFilters[i].filterId)]

ApplyButton ==
    /\ filtersExpanded
    /\ hasUnappliedTextChanges
    /\ handleApplyFilters(Op("apply", "", "", NoVal, ""))

FieldEnterKey ==
    \E i \in 1..Len(pendingFilters) :
        /\ RowShown(i)
        /\ FieldHasEnterKey(DefOf(i), effectiveOperator(DefOf(i), pendingFilters[i]))
        /\ handleApplyFilters(Op("enterValue", DefOf(i).type, pendingFilters[i].id,
                                 NoVal, ""))

----------------------------------------------------------------------------
(* Filter rows *)

FreshFilterId ==
    CHOOSE i \in 1..Len(IdPool) :
        /\ \A k \in 1..Len(pendingFilters) : pendingFilters[k].id # IdPool[i]
        /\ \A k \in 1..Len(activeFilters) : activeFilters[k].id # IdPool[i]
        /\ \A j \in 1..(i - 1) :
              \/ \E k \in 1..Len(pendingFilters) : pendingFilters[k].id = IdPool[j]
              \/ \E k \in 1..Len(activeFilters) : activeFilters[k].id = IdPool[j]

\* variant: the new filter takes the first operator of the operator set
NewFilter_FirstOperator(def) ==
    [id |-> IdPool[FreshFilterId], filterId |-> def.id,
     operator |-> OperatorsOf(def)[1], value |-> Str("")]

\* the ActiveFilter handleAddFilter builds for a definition
NewFilter(def) ==
    [id |-> IdPool[FreshFilterId], filterId |-> def.id,
     operator |-> DefaultOperatorOf(def), value |-> Str("")]

\* variant: the new filter is applied as soon as it is added
AddFilterCalls_AutoApply(updatedFilters) == <<FiltersCall(updatedFilters)>>

\* handleAddFilter invokes no callback: the new filter is not auto-applied
AddFilterCalls(updatedFilters) == <<>>

\* ids handleAddFilter can be called with: the options of the add-filter
\* Select, and as a function also the empty id and an id of no definition
AddInputs ==
    {availableFiltersToAdd[i].id : i \in 1..Len(availableFiltersToAdd)}
    \cup {"", "ghost"}

handleAddFilter(filterId) ==
    /\ filtersExpanded
    /\ IF filterId = "" \/ FindDef(filterId) = 0
       THEN Handler(Op("add", "", "", NoVal, filterId),
                    localSearchValue, pendingFilters, timers, searchDebounceRef,
                    <<>>)
       ELSE Handler(Op("add", availableFilters[FindDef(filterId)].type, "", NoVal,
                       filterId),
                    localSearchValue,
                    Append(pendingFilters, NewFilter(availableFilters[FindDef(filterId)])),
                    timers, searchDebounceRef,
                    AddFilterCalls(Append(pendingFilters,
                                          NewFilter(availableFilters[FindDef(filterId)]))))
    /\ UNCHANGED <<filterMode, filtersExpanded>>

\* variant: the removal stays pending
RemoveFilterCalls_None(updatedFilters) == <<>>

\* handleRemoveFilter applies the removal immediately
RemoveFilterCalls(updatedFilters) == <<FiltersCall(updatedFilters)>>

handleRemoveFilter(id) ==
    LET updatedFilters == SelectSeq(pendingFilters, LAMBDA f : f.id # id)
    IN  /\ \E i \in 1..Len(pendingFilters) : RowShown(i) /\ pendingFilters[i].id = id
        /\ Handler(Op("remove", "", id, NoVal, ""),
                   localSearchValue, updatedFilters, timers, searchDebounceRef,
                   RemoveFilterCalls(updatedFilters))
        /\ UNCHANGED <<filterMode, filtersExpanded>>

\* pendingFilters.map(f => f.id === filterId ? { ...f, value } : f)
WithValue(filters, id, value) ==
    [i \in 1..Len(filters) |->
        IF filters[i].id = id THEN [filters[i] EXCEPT !.value = value] ELSE filters[i]]

\* pendingFilters.map(f => f.id === filterId ? { ...f, operator } : f)
WithOperator(filters, id, operator) ==
    [i \in 1..Len(filters) |->
        IF filters[i].id = id THEN [filters[i] EXCEPT !.operator = operator]
        ELSE filters[i]]

\* does a change auto-apply: if (filterType !== 'text')
AutoApplies(filterType) == filterType # "text"

\* variant: the list of the last render is handed over, without the change
ValueChangeCalls_Stale(updatedFilters, filterType) ==
    IF AutoApplies(filterType)
    THEN <<FiltersCall(pendingFilters)>>
         \o (IF hasUnappliedSearchChange
             THEN <<SearchCall(localSearchValue)>> ELSE <<>>)
    ELSE <<>>

\* the callbacks of handleFilterValueChange, in call order
ValueChangeCalls(updatedFilters, filterType) ==
    IF AutoApplies(filterType)
    THEN <<FiltersCall(updatedFilters)>>
         \o (IF hasUnappliedSearchChange
             THEN <<SearchCall(localSearchValue)>> ELSE <<>>)
    ELSE <<>>

\* variant: the flush leaves the debounce timer running
ValueChangeTimers_Keep(filterType) == timers

ValueChangeTimers(filterType) ==
    IF AutoApplies(filterType) /\ hasUnappliedSearchChange
    THEN ClearDebounce(timers) ELSE timers

handleFilterValueChange(id, value, filterType) ==
    LET updatedFilters == WithValue(pendingFilters, id, value)
    IN  /\ Handler(Op("valueChange", filterType, id, value, ""),
                   localSearchValue, updatedFilters, ValueChangeTimers(filterType),
                   searchDebounceRef, ValueChangeCalls(updatedFilters, filterType))
        /\ UNCHANGED <<filterMode, filtersExpanded>>

\* onChange of the value field of a rendered row
FieldChange ==
    \E i \in 1..Len(pendingFilters) :
        /\ RowShown(i)
        /\ \E value \in FieldEmits(DefOf(i),
                                   effectiveOperator(DefOf(i), pendingFilters[i]),
                                   pendingFilters[i].value) :
              handleFilterValueChange(pendingFilters[i].id, value, DefOf(i).type)

\* the callbacks of handleOperatorChange, in call order
OperatorChangeCalls(updatedFilters) ==
    <<FiltersCall(updatedFilters)>>
    \o (IF hasUnappliedSearchChange THEN <<SearchCall(localSearchValue)>> ELSE <<>>)

OperatorChangeTimers ==
    IF hasUnappliedSearchChange THEN ClearDebounce(timers) ELSE timers

handleOperatorChange(id, operator, filterType) ==
    LET updatedFilters == WithOperator(pendingFilters, id, operator)
    IN  /\ Handler(Op("operatorChange", filterType, id, NoVal, operator),
                   localSearchValue, updatedFilters, OperatorChangeTimers,
                   searchDebounceRef, OperatorChangeCalls(updatedFilters))
        /\ UNCHANGED <<filterMode, filtersExpanded>>

\* the operator selector: advanced mode, or a date field in basic mode
OperatorSelect ==
    \E i \in 1..Len(pendingFilters) :
        /\ RowShown(i)
        /\ filterMode = "advanced" \/ DefOf(i).type = "date"
        /\ \E operator \in Range(OperatorsOf(DefOf(i))) \ {pendingFilters[i].operator} :
              handleOperatorChange(pendingFilters[i].id, operator, DefOf(i).type)

ClearAllCalls == <<SearchCall(""), FiltersCall(<<>>)>>

\* the timers Clear all leaves standing
ClearAllTimers == timers

handleClearAllFilters ==
    /\ \/ filtersExpanded /\ Len(pendingFilters) > 0
       \/ activeFilterCount > 0 /\ ~filtersExpanded
    /\ Handler(Op("clearAll", "", "", NoVal, ""),
               "", <<>>, ClearAllTimers, searchDebounceRef, ClearAllCalls)
    /\ UNCHANGED <<filterMode, filtersExpanded>>

\* variant: every operator reset to the first operator of the type's catalog
ResetOperators_TypeDefault(filters) ==
    [i \in 1..Len(filters) |->
        IF FindDef(filters[i].filterId) = 0 THEN filters[i]
        ELSE [filters[i] EXCEPT !.operator =
                DEFAULT_OPERATORS(availableFilters[FindDef(filters[i].filterId)].type)[1]]]

\* variant: a filter of no definition is reset to 'regex'
ResetOperators_OrphanReset(filters) ==
    [i \in 1..Len(filters) |->
        IF FindDef(filters[i].filterId) = 0 THEN [filters[i] EXCEPT !.operator = "regex"]
        ELSE [filters[i] EXCEPT !.operator =
                DefaultOperatorOf(availableFilters[FindDef(filters[i].filterId)])]]

\* every operator reset to the definition's default; unknown filters kept
ResetOperators(filters) ==
    [i \in 1..Len(filters) |->
        IF FindDef(filters[i].filterId) = 0 THEN filters[i]
        ELSE [filters[i] EXCEPT !.operator =
                DefaultOperatorOf(availableFilters[FindDef(filters[i].filterId)])]]

handleFilterModeChange(mode) ==
    /\ filtersExpanded
    /\ filterMode' = mode
    /\ IF mode = "basic"
       THEN Handler(Op("modeChange", "", "",
                       Bool(ResetOperators(pendingFilters) # pendingFilters), mode),
                    localSearchValue, ResetOperators(pendingFilters), timers,
                    searchDebounceRef,
                    <<FiltersCall(ResetOperators(pendingFilters))>>)
       ELSE Handler(Op("modeChange", "", "", NoVal, mode),
                    localSearchValue, pendingFilters, timers, searchDebounceRef, <<>>)
    /\ UNCHANGED filtersExpanded

\* the Filters button: setFiltersExpanded(!filtersExpanded); it touches no
\* search or filter state, and the history variables do not record it
ToggleFiltersExpanded ==
    /\ mounted
    /\ NoDueTimer
    /\ Len(availableFilters) > 0
    /\ filtersExpanded' = ~filtersExpanded
    /\ UNCHANGED <<availableFilters, searchValue, activeFilters, localSearchValue,
                   pendingFilters, filterMode, timers, searchDebounceRef, mounted,
                   lastOp, calls, late, flushed, quiet, burstN, burstCalls,
                   controllerVars, exportVars, menuVars>>

----------------------------------------------------------------------------
(* Unmount, the clock, and the debounce timer firing *)

\* variant: no cleanup
UnmountCleanup_None == timers

\* the cleanup of the mount effect
UnmountCleanup == ClearDebounce(timers)

Unmount ==
    /\ mounted
    /\ NoDueTimer
    /\ mounted' = FALSE
    /\ timers' = UnmountCleanup
    /\ lastOp' = Op("unmount", "", "", NoVal, "")
    /\ calls' = <<>>
    /\ late' = <<>>
    /\ flushed' = {}
    /\ quiet' = 0
    /\ burstN' = 0
    /\ burstCalls' = <<>>
    /\ UNCHANGED <<availableFilters, searchValue, activeFilters, localSearchValue,
                   pendingFilters, filterMode, filtersExpanded, searchDebounceRef,
                   controllerVars, exportVars, menuVars>>

\* one tick of the clock, counted while a timer is outstanding; a due timer
\* fires first
Tick ==
    /\ NoDueTimer
    /\ timers # {}
    /\ timers' = {[t EXCEPT !.left = t.left - 1] : t \in timers}
    /\ quiet' = IF burstN > 0 THEN Min(quiet + 1, DebounceTicks) ELSE quiet
    /\ UNCHANGED <<availableFilters, searchValue, activeFilters, localSearchValue,
                   pendingFilters, filterMode, filtersExpanded, searchDebounceRef,
                   mounted, lastOp, calls, late, flushed, burstN, burstCalls,
                   controllerVars, exportVars, menuVars>>

\* the setTimeout callback: onSearchChange?.(value), adopted by the parent
TimerFire ==
    \E t \in timers :
        /\ t.left = 0
        /\ timers' = timers \ {t}
        /\ searchValue' = ParentSearchValue(<<SearchCall(t.value)>>)
        /\ localSearchValue' =
              IF mounted
              THEN SyncLocalSearch(ParentSearchValue(<<SearchCall(t.value)>>),
                                   localSearchValue)
              ELSE localSearchValue
        /\ late' = Append(late, SearchCall(t.value))
        /\ burstCalls' = IF burstN > 0 THEN Append(burstCalls, t.value) ELSE burstCalls
        /\ UNCHANGED <<availableFilters, activeFilters, pendingFilters, filterMode,
                       filtersExpanded, searchDebounceRef, mounted, lastOp, calls,
                       flushed, quiet, burstN, controllerVars, exportVars, menuVars>>

----------------------------------------------------------------------------
(* The specification *)

Init ==
    /\ availableFilters \in Configs
    /\ searchValue = ""
    /\ activeFilters = <<>>
    /\ localSearchValue = searchValue
    /\ pendingFilters = activeFilters
    /\ filterMode = "basic"
    /\ filtersExpanded = FALSE
    /\ timers = {}
    /\ searchDebounceRef = 0
    /\ mounted = TRUE
    /\ lastOp = Op("mount", "", "", NoVal, "")
    /\ calls = <<>>
    /\ late = <<>>
    /\ flushed = {}
    /\ quiet = DebounceTicks
    /\ burstN = 0
    /\ burstCalls = <<>>
    /\ representedFilters = <<>>
    /\ ctlPrev = ""
    /\ coRepresentedFilters = <<>>
    /\ exportDialogOpen = FALSE
    /\ exportType = "all"
    /\ exportMethod = "download"
    /\ email = ""
    /\ exports = <<>>
    /\ DEFAULT_PINNED_MENUS = DefaultPinnedMenus
    /\ localStorage = NoItem

Next ==
    \/ \E value \in SearchStrings : handleSearchInputChange(value)
    \/ handleSearchKeyDown
    \/ ApplyButton
    \/ FieldEnterKey
    \/ \E filterId \in AddInputs : handleAddFilter(filterId)
    \/ \E i \in 1..Len(pendingFilters) : handleRemoveFilter(pendingFilters[i].id)
    \/ FieldChange
    \/ OperatorSelect
    \/ handleClearAllFilters
    \/ \E mode \in {"basic", "advanced"} : handleFilterModeChange(mode)
    \/ ToggleFiltersExpanded
    \/ Unmount
    \/ Tick
    \/ TimerFire

Spec == Init /\ [][Next]_vars

\* a step of an event handler: not the clock, a timer, or the panel button
HandlerStep == ~(Tick \/ TimerFire \/ ToggleFiltersExpanded)

----------------------------------------------------------------------------
(* useFilterController: an external component acting as one or more filters *)

\* `${value}` of a template literal, as tokens
TemplateText(value) ==
    CASE value.k = "str" -> <<value.s>>
      [] value.k = "num" -> <<value.n>>
      [] value.k = "bool" -> <<IF value.b THEN "true" ELSE "false">>
      [] value.k = "arr" ->
            Join([i \in 1..Len(value.a) |->
                    IF value.a[i].k = "str" THEN <<value.a[i].s>>
                    ELSE JsonScalar(value.a[i])])
      [] value.k = "obj" -> <<"[object Object]">>
      [] OTHER -> <<"undefined">>

Triple(filterId, operator, value) ==
    [filterId |-> filterId, operator |-> operator, value |-> value]

StatusOpen == Triple("status", "eq", Arr(<<Str("o1")>>))
PriceFrom == Triple("price", "gte", Num("1"))
PriceTo == Triple("price", "lte", Num("2"))
TagsBoth == Triple("tags", "in", Arr(<<Str("o1"), Str("o2")>>))

\* the controllers checked: none, one triple, two triples of one filter, two
\* triples of two filters
RepresentedConfigs ==
    { <<>>, <<StatusOpen>>, <<PriceFrom, PriceTo>>, <<StatusOpen, TagsBoth>> }

\* filters the toolbar has applied before the controller acts
ToolbarFilters ==
    { [id |-> "f1", filterId |-> "name", operator |-> "regex", value |-> Str("x")],
      [id |-> "f2", filterId |-> "status", operator |-> "eq",
       value |-> Arr(<<Str("o1")>>)],
      [id |-> "f3", filterId |-> "tags", operator |-> "in",
       value |-> Arr(<<Str("o2"), Str("o1")>>)] }

\* the applied lists the controller starts from: up to two toolbar filters
AppliedLists ==
    {<<>>} \cup {<<f>> : f \in ToolbarFilters}
    \cup {p \in ToolbarFilters \X ToolbarFilters : p[1] # p[2]}

\* new Set(rf.map(x => x.filterId)) of a controller representing rf
FilterIdsOf(rf) == {rf[i].filterId : i \in 1..Len(rf)}

\* isActive of a controller representing rf, rendered with the applied list af
IsActiveFor(rf, af) ==
    IF Len(rf) = 0 THEN FALSE
    ELSE \E i \in 1..Len(rf) : \E j \in 1..Len(af) :
            /\ af[j].filterId = rf[i].filterId
            /\ af[j].operator = rf[i].operator
            /\ JsonStringify(af[j].value) = JsonStringify(rf[i].value)

\* variant: every applied filter is dropped
OtherFiltersFor_DropAll(rf, af) == <<>>

\* activeFilters.filter(af => !filterIds.has(af.filterId)) of that controller
OtherFiltersFor(rf, af) ==
    SelectSeq(af, LAMBDA x : x.filterId \notin FilterIdsOf(rf))

\* representedFilters.map((rf, index) => ({ id, filterId, operator, value }))
NewFiltersFor(rf, now) ==
    [i \in 1..Len(rf) |->
        [id |-> ToString(<<rf[i].filterId, TemplateText(rf[i].value), now, i - 1>>),
         filterId |-> rf[i].filterId,
         operator |-> rf[i].operator,
         value |-> rf[i].value]]

\* variant: the applied filters of the controller's filterIds are kept
ApplyListFor_KeepAll(rf, af, now) == af \o NewFiltersFor(rf, now)

\* [...otherFilters, ...newFilters] of that controller
ApplyListFor(rf, af, now) == OtherFiltersFor(rf, af) \o NewFiltersFor(rf, now)

\* new Set(representedFilters.map(rf => rf.filterId))
RepresentedIds == FilterIdsOf(representedFilters)

\* variant: the value of the applied filter is not compared
isActive_AnyValue ==
    IF Len(representedFilters) = 0 THEN FALSE
    ELSE \E i \in 1..Len(representedFilters) : \E j \in 1..Len(activeFilters) :
            /\ activeFilters[j].filterId = representedFilters[i].filterId
            /\ activeFilters[j].operator = representedFilters[i].operator

\* some represented triple has an applied filter with its filterId, operator
\* and serialized value; no triple at all: false
isActive == IsActiveFor(representedFilters, activeFilters)

\* variant: only the filters equal to a represented triple are dropped
OtherFilters_ByTriple ==
    SelectSeq(activeFilters,
              LAMBDA af : ~\E i \in 1..Len(representedFilters) :
                              /\ af.filterId = representedFilters[i].filterId
                              /\ af.operator = representedFilters[i].operator
                              /\ af.value = representedFilters[i].value)

\* activeFilters.filter(af => !filterIds.has(af.filterId))
OtherFilters == OtherFiltersFor(representedFilters, activeFilters)

\* variant: the new filters are created with an empty value
NewFilters_EmptyValue(now) ==
    [i \in 1..Len(representedFilters) |->
        [id |-> ToString(<<representedFilters[i].filterId,
                           TemplateText(representedFilters[i].value), now, i - 1>>),
         filterId |-> representedFilters[i].filterId,
         operator |-> representedFilters[i].operator,
         value |-> Str("")]]

\* one ActiveFilter per triple, id `${filterId}-${value}-${Date.now()}-${index}`
NewFilters(now) == NewFiltersFor(representedFilters, now)

\* one operation of the controller: the list it hands to onFilterChange is
\* adopted by the parent, and a mounted toolbar syncs its pending list
Controller(name, via, cs) ==
    /\ activeFilters' = ParentActiveFilters(cs)
    /\ pendingFilters' = SyncPendingFilters(cs, pendingFilters)
    /\ lastOp' = Op(name, "", "", Bool(isActive), via)
    /\ calls' = cs
    /\ ctlPrev' = IF lastOp.op \in {"mount", "applyFilters", "removeFilters"}
                  THEN lastOp.op ELSE "other"
    /\ UNCHANGED <<availableFilters, searchValue, localSearchValue, filterMode,
                   filtersExpanded, timers, searchDebounceRef, mounted, late,
                   flushed, quiet, burstN, burstCalls, representedFilters,
                   coRepresentedFilters, exportVars, menuVars>>

\* variant: the applied filters of represented filterIds are kept
ApplyFiltersList_KeepAll(now) == activeFilters \o NewFilters(now)

\* [...otherFilters, ...newFilters]
ApplyFiltersList(now) == OtherFilters \o NewFilters(now)

applyFilters(via, now) ==
    Controller("applyFilters", via, <<FiltersCall(ApplyFiltersList(now))>>)

\* variant: the last of the other filters is dropped as well
RemoveFiltersList_DropLast ==
    SubSeq(OtherFilters, 1, Len(OtherFilters) - 1)

\* the list removeFilters hands to onFilterChange
RemoveFiltersList == OtherFilters

removeFilters(via) ==
    Controller("removeFilters", via, <<FiltersCall(RemoveFiltersList)>>)

\* variant: the toggle applies whether or not the controller is active
toggleFilters_AlwaysApply(now) == applyFilters("toggle", now)

toggleFilters(now) ==
    IF isActive THEN removeFilters("toggle") ELSE applyFilters("toggle", now)

ControllerInit ==
    /\ availableFilters = <<NameDef, StatusDef>>
    /\ searchValue = ""
    /\ activeFilters \in AppliedLists
    /\ localSearchValue = searchValue
    /\ pendingFilters = activeFilters
    /\ filterMode = "basic"
    /\ filtersExpanded = FALSE
    /\ timers = {}
    /\ searchDebounceRef = 0
    /\ mounted = TRUE
    /\ lastOp = Op("mount", "", "", NoVal, "")
    /\ calls = <<>>
    /\ late = <<>>
    /\ flushed = {}
    /\ quiet = DebounceTicks
    /\ burstN = 0
    /\ burstCalls = <<>>
    /\ representedFilters \in RepresentedConfigs
    /\ ctlPrev = ""
    /\ coRepresentedFilters = <<>>
    /\ exportDialogOpen = FALSE
    /\ exportType = "all"
    /\ exportMethod = "download"
    /\ email = ""
    /\ exports = <<>>
    /\ DEFAULT_PINNED_MENUS = DefaultPinnedMenus
    /\ localStorage = NoItem

ControllerNext ==
    \/ \E now \in 1..MaxNow : applyFilters("", now)
    \/ removeFilters("")
    \/ \E now \in 1..MaxNow : toggleFilters(now)

ControllerSpec == ControllerInit /\ [][ControllerNext]_vars

----------------------------------------------------------------------------
(* Two filter controllers on one applied list *)

StatusClosed == Triple("status", "eq", Arr(<<Str("o2")>>))

\* the second controller: none, one sharing 'status', one sharing 'tags', and
\* one whose filterId no first controller has
CoRepresentedConfigs ==
    { <<>>, <<StatusClosed>>, <<TagsBoth>>,
      <<Triple("assignee", "eq", Str("me"))>> }

Controllers == {"A", "B"}

OtherController(who) == IF who = "A" THEN "B" ELSE "A"

\* config.representedFilters of a controller
RepresentedOf(who) ==
    IF who = "A" THEN representedFilters ELSE coRepresentedFilters

\* one event-handling turn of the page with two controllers: the calls of
\* onFilterChange it made, the last of which the parent keeps
PairController(who, name, via, cs) ==
    /\ activeFilters' = ParentActiveFilters(cs)
    /\ pendingFilters' = SyncPendingFilters(cs, pendingFilters)
    /\ lastOp' = Op(name, "", who, NoVal, via)
    /\ calls' = cs
    /\ ctlPrev' = <<lastOp.id, lastOp.op>>
    /\ UNCHANGED <<availableFilters, searchValue, localSearchValue, filterMode,
                   filtersExpanded, timers, searchDebounceRef, mounted, late,
                   flushed, quiet, burstN, burstCalls, representedFilters,
                   coRepresentedFilters, exportVars, menuVars>>

applyFiltersOf(who, via, now) ==
    PairController(who, "applyFilters", via,
        <<FiltersCall(ApplyListFor(RepresentedOf(who), activeFilters, now))>>)

removeFiltersOf(who, via) ==
    PairController(who, "removeFilters", via,
        <<FiltersCall(OtherFiltersFor(RepresentedOf(who), activeFilters))>>)

toggleFiltersOf(who, now) ==
    IF IsActiveFor(RepresentedOf(who), activeFilters)
    THEN removeFiltersOf(who, "toggle")
    ELSE applyFiltersOf(who, "toggle", now)

\* one handler calls applyFilters of both controllers, `first` first: both
\* closures hold the activeFilters of the last render
ApplyBoth(first, now) ==
    PairController(first, "applyBoth", "",
        <<FiltersCall(ApplyListFor(RepresentedOf(first), activeFilters, now)),
          FiltersCall(ApplyListFor(RepresentedOf(OtherController(first)),
                                   activeFilters, now))>>)

PairInit ==
    /\ availableFilters = <<NameDef, StatusDef>>
    /\ searchValue = ""
    /\ activeFilters \in AppliedLists
    /\ localSearchValue = searchValue
    /\ pendingFilters = activeFilters
    /\ filterMode = "basic"
    /\ filtersExpanded = FALSE
    /\ timers = {}
    /\ searchDebounceRef = 0
    /\ mounted = TRUE
    /\ lastOp = Op("mount", "", "", NoVal, "")
    /\ calls = <<>>
    /\ late = <<>>
    /\ flushed = {}
    /\ quiet = DebounceTicks
    /\ burstN = 0
    /\ burstCalls = <<>>
    /\ representedFilters \in RepresentedConfigs
    /\ ctlPrev = <<"", "">>
    /\ coRepresentedFilters \in CoRepresentedConfigs
    /\ exportDialogOpen = FALSE
    /\ exportType = "all"
    /\ exportMethod = "download"
    /\ email = ""
    /\ exports = <<>>
    /\ DEFAULT_PINNED_MENUS = DefaultPinnedMenus
    /\ localStorage = NoItem

PairNext ==
    \/ \E who \in Controllers : \E now \in 1..MaxNow : applyFiltersOf(who, "", now)
    \/ \E who \in Controllers : removeFiltersOf(who, "")
    \/ \E who \in Controllers : \E now \in 1..MaxNow : toggleFiltersOf(who, now)
    \/ \E first \in Controllers : \E now \in 1..MaxNow : ApplyBoth(first, now)

PairSpec == PairInit /\ [][PairNext]_vars

----------------------------------------------------------------------------
(* A page with the toolbar and a filter controller on one applied list *)

\* a represented filter the page keeps out of the toolbar's definitions
AssigneeMe == Triple("assignee", "eq", Str("me"))

\* the external component is clicked: toggleFilters
ControllerToggle ==
    /\ mounted
    /\ NoDueTimer
    /\ \E now \in 1..MaxNow : toggleFilters(now)

\* the page resets its search term and filter list itself
ParentReset ==
    /\ mounted
    /\ NoDueTimer
    /\ searchValue # "" \/ activeFilters # <<>>
    /\ searchValue' = ""
    /\ activeFilters' = <<>>
    /\ localSearchValue' = SyncLocalSearch("", localSearchValue)
    /\ pendingFilters' = <<>>
    /\ lastOp' = Op("parentReset", "", "", NoVal, "")
    /\ calls' = <<>>
    /\ late' = <<>>
    /\ flushed' = {}
    /\ quiet' = 0
    /\ burstN' = 0
    /\ burstCalls' = <<>>
    /\ UNCHANGED <<availableFilters, filterMode, filtersExpanded, timers,
                   searchDebounceRef, mounted, controllerVars, exportVars, menuVars>>

PageInit ==
    /\ availableFilters = <<NameDef>>
    /\ searchValue = ""
    /\ activeFilters = <<>>
    /\ localSearchValue = searchValue
    /\ pendingFilters = activeFilters
    /\ filterMode = "basic"
    /\ filtersExpanded = FALSE
    /\ timers = {}
    /\ searchDebounceRef = 0
    /\ mounted = TRUE
    /\ lastOp = Op("mount", "", "", NoVal, "")
    /\ calls = <<>>
    /\ late = <<>>
    /\ flushed = {}
    /\ quiet = DebounceTicks
    /\ burstN = 0
    /\ burstCalls = <<>>
    /\ representedFilters = <<AssigneeMe>>
    /\ ctlPrev = ""
    /\ coRepresentedFilters = <<>>
    /\ exportDialogOpen = FALSE
    /\ exportType = "all"
    /\ exportMethod = "download"
    /\ email = ""
    /\ exports = <<>>
    /\ DEFAULT_PINNED_MENUS = DefaultPinnedMenus
    /\ localStorage = NoItem

PageNext ==
    \/ Next
    \/ ControllerToggle
    \/ ParentReset

PageSpec == PageInit /\ [][PageNext]_vars

----------------------------------------------------------------------------
(* ExportDialog, and the export menu of the toolbar that opens it *)

\* what the user can type as address
EmailInputs == {"", "a@x", "b@x"}

\* onExport of the toolbar: onExportAll or onExportResults, by exportType
ExportCall(type, sendEmail, address) ==
    [type |-> type, sendEmail |-> sendEmail, email |-> address]

\* one operation on the dialog; the toolbar's search and filters stay
Dialog(o, newOpen, newType, newMethod, newEmail, es) ==
    /\ exportDialogOpen' = newOpen
    /\ exportType' = newType
    /\ exportMethod' = newMethod
    /\ email' = newEmail
    /\ exports' = es
    /\ lastOp' = o
    /\ UNCHANGED <<toolbarVars, controllerVars, menuVars>>

\* Export All / Export Results of the export menu
OpenExportDialog(type) ==
    /\ ~exportDialogOpen
    /\ Dialog(Op("openExport", "", "", NoVal, type),
              TRUE, type, exportMethod, email, <<>>)

\* the radio group
setExportMethod(method) ==
    /\ exportDialogOpen
    /\ method # exportMethod
    /\ Dialog(Op("setExportMethod", "", "", NoVal, method),
              exportDialogOpen, exportType, method, email, <<>>)

\* the address field, rendered for the email method
setEmail(address) ==
    /\ exportDialogOpen
    /\ exportMethod = "email"
    /\ address # email
    /\ Dialog(Op("setEmail", "", "", NoVal, address),
              exportDialogOpen, exportType, exportMethod, address, <<>>)

\* variant: the export is never blocked
ExportBlocked_Never == FALSE

\* exportMethod === 'email' && !email: the Export button is disabled and
\* handleExport returns at once
ExportBlocked == exportMethod = "email" /\ email = ""

\* the Export button
handleExport ==
    /\ exportDialogOpen
    /\ IF ExportBlocked
       THEN Dialog(Op("export", "", "", NoVal, ""),
                   exportDialogOpen, exportType, exportMethod, email, <<>>)
       ELSE Dialog(Op("export", "", "", NoVal, ""),
                   FALSE, exportType, "download", "",
                   <<ExportCall(exportType, exportMethod = "email",
                                IF exportMethod = "email" THEN Str(email)
                                ELSE Undefined)>>)

\* the Cancel button
handleCancel ==
    /\ exportDialogOpen
    /\ Dialog(Op("cancel", "", "", NoVal, ""),
              FALSE, exportType, "download", "", <<>>)

\* Escape or a click outside: the Dialog calls onOpenChange(false) itself
DismissDialog ==
    /\ exportDialogOpen
    /\ Dialog(Op("dismiss", "", "", NoVal, ""),
              FALSE, exportType, exportMethod, email, <<>>)

\* the dialog of the toolbar of any of the pages, closed
ExportInit == Init

ExportNext ==
    \/ \E type \in {"all", "results"} : OpenExportDialog(type)
    \/ \E method \in {"download", "email"} : setExportMethod(method)
    \/ \E address \in EmailInputs : setEmail(address)
    \/ handleExport
    \/ handleCancel
    \/ DismissDialog

ExportSpec == ExportInit /\ [][ExportNext]_vars

----------------------------------------------------------------------------
(* Menu preference store *)

\* the menu ids the sidebar pins and unpins
MenuIds == {"dashboard", "project-list", "reports", "payroll"}

\* the orders the sidebar hands to updateMenuOrder
OrderedMenuIds ==
    { <<"dashboard">>, <<"reports", "dashboard">>,
      <<"project-list", "dashboard", "payroll">> }

\* obj[key] = val on a Record<string, number>, kept as its entries in key order
SetKey(obj, key, val) ==
    IF \E i \in 1..Len(obj) : obj[i].key = key
    THEN [i \in 1..Len(obj) |->
            IF obj[i].key = key THEN [key |-> key, val |-> val] ELSE obj[i]]
    ELSE Append(obj, [key |-> key, val |-> val])

\* delete obj[key]
DeleteKey(obj, key) == SelectSeq(obj, LAMBDA e : e.key # key)

RECURSIVE OrderUpTo(_, _)
OrderUpTo(ids, n) ==
    IF n = 0 THEN <<>> ELSE SetKey(OrderUpTo(ids, n - 1), ids[n], n - 1)

\* ids.forEach((id, index) => { order[id] = index })
OrderOf(ids) == OrderUpTo(ids, Len(ids))

\* getMenuPreferences: the parsed item, or the defaults when nothing is
\* stored; `shared` tells that pinnedMenuIds is the array DEFAULT_PINNED_MENUS
\* itself
getMenuPreferences ==
    IF localStorage.present
    THEN [pinnedMenuIds |-> localStorage.pinnedMenuIds,
          menuOrder |-> localStorage.menuOrder, shared |-> FALSE]
    ELSE [pinnedMenuIds |-> DEFAULT_PINNED_MENUS,
          menuOrder |-> OrderOf(DEFAULT_PINNED_MENUS), shared |-> TRUE]

\* localStorage.setItem(MENU_PREFERENCES_KEY, JSON.stringify(preferences)):
\* the arrays and numbers are written out, the item shares nothing with them
StoredItem(pinnedMenuIds, menuOrder) ==
    [present |-> TRUE, pinnedMenuIds |-> pinnedMenuIds, menuOrder |-> menuOrder]

\* one call of the store
Menu(name, menuId, newDefaults, newItem) ==
    /\ DEFAULT_PINNED_MENUS' = newDefaults
    /\ localStorage' = newItem
    /\ lastOp' = Op(name, "", "", NoVal, menuId)
    /\ UNCHANGED <<toolbarVars, controllerVars, exportVars>>

addPinnedMenu(menuId) ==
    LET prefs == getMenuPreferences
    IN  IF menuId \notin Range(prefs.pinnedMenuIds)
        THEN Menu("addPinnedMenu", menuId,
                  \* prefs.pinnedMenuIds.push(menuId)
                  IF prefs.shared THEN Append(DEFAULT_PINNED_MENUS, menuId)
                  ELSE DEFAULT_PINNED_MENUS,
                  StoredItem(Append(prefs.pinnedMenuIds, menuId),
                             SetKey(prefs.menuOrder, menuId, Len(prefs.menuOrder))))
        ELSE Menu("addPinnedMenu", menuId, DEFAULT_PINNED_MENUS, localStorage)

removePinnedMenu(menuId) ==
    LET prefs == getMenuPreferences
    IN  Menu("removePinnedMenu", menuId, DEFAULT_PINNED_MENUS,
             StoredItem(SelectSeq(prefs.pinnedMenuIds, LAMBDA id : id # menuId),
                        DeleteKey(prefs.menuOrder, menuId)))

resetMenuPreferences ==
    Menu("resetMenuPreferences", "", DEFAULT_PINNED_MENUS,
         StoredItem(DEFAULT_PINNED_MENUS, OrderOf(DEFAULT_PINNED_MENUS)))

updateMenuOrder(orderedMenuIds) ==
    Menu("updateMenuOrder", "", DEFAULT_PINNED_MENUS,
         StoredItem(orderedMenuIds, OrderOf(orderedMenuIds)))

\* the page is loaded again: the module is evaluated anew, the item stays
Reload ==
    Menu("reload", "", DefaultPinnedMenus, localStorage)

MenuInit ==
    /\ availableFilters = <<NameDef>>
    /\ searchValue = ""
    /\ activeFilters = <<>>
    /\ localSearchValue = searchValue
    /\ pendingFilters = activeFilters
    /\ filterMode = "basic"
    /\ filtersExpanded = FALSE
    /\ timers = {}
    /\ searchDebounceRef = 0
    /\ mounted = TRUE
    /\ lastOp = Op("mount", "", "", NoVal, "")
    /\ calls = <<>>
    /\ late = <<>>
    /\ flushed = {}
    /\ quiet = DebounceTicks
    /\ burstN = 0
    /\ burstCalls = <<>>
    /\ representedFilters = <<>>
    /\ ctlPrev = ""
    /\ coRepresentedFilters = <<>>
    /\ exportDialogOpen = FALSE
    /\ exportType = "all"
    /\ exportMethod = "download"
    /\ email = ""
    /\ exports = <<>>
    /\ DEFAULT_PINNED_MENUS = DefaultPinnedMenus
    /\ localStorage = NoItem

MenuNext ==
    \/ \E menuId \in MenuIds : addPinnedMenu(menuId)
    \/ \E menuId \in MenuIds : removePinnedMenu(menuId)
    \/ resetMenuPreferences
    \/ \E orderedMenuIds \in OrderedMenuIds : updateMenuOrder(orderedMenuIds)
    \/ Reload

MenuSpec == MenuInit /\ [][MenuNext]_vars

----------------------------------------------------------------------------
(* Commit policy per filter type *)

AutoCommitTypes == {"select", "multiselect", "date", "checkbox", "boolean"}

\* C1: a value change of a text, number or numberrange filter invokes no
\* onFiltersChange in that step; the edit only enters the pending list.
C1_DeferredValueChangeStaysPending ==
    (lastOp.op = "valueChange" /\ lastOp.type \in DeferredTypes)
        => FiltersCallsOf(calls) = <<>>

\* C2: a value change of a select, multiselect, date, checkbox or boolean
\* filter, and an operator change of any filter, invokes onFiltersChange
\* exactly once in the handler's own step, with the pending list of the
\* render it ran in with that one change applied.
C2_AutoCommitInSameStep ==
    [][HandlerStep =>
        /\ (lastOp'.op = "valueChange" /\ lastOp'.type \in AutoCommitTypes)
              => FiltersCallsOf(calls') =
                    <<FiltersCall(WithValue(pendingFilters, lastOp'.id, lastOp'.val))>>
        /\ lastOp'.op = "operatorChange"
              => FiltersCallsOf(calls') =
                    <<FiltersCall(WithOperator(pendingFilters, lastOp'.id,
                                               lastOp'.arg))>>]_vars

\* C2 witness: a select option was picked while another filter was pending,
\* and the two-filter list went to onFiltersChange in that step.
C2_Witness ==
    /\ lastOp.op = "valueChange"
    /\ lastOp.type = "select"
    /\ Len(calls) = 1
    /\ calls[1].cb = "filters"
    /\ Len(calls[1].f) = 2
    /\ \E k \in 1..2 : calls[1].f[k].id = lastOp.id /\ calls[1].f[k].value = lastOp.val

----------------------------------------------------------------------------
(* Search debounce *)

\* C3: while a burst of keystrokes lasts (each within the window of the one
\* before) onSearchChange is not invoked; once the window has elapsed after
\* the last keystroke it has been invoked exactly once, with the last string.
C3_DebounceOnce ==
    burstN >= 1 =>
        IF quiet = DebounceTicks /\ NoDueTimer
        THEN burstCalls = <<lastOp.arg>>
        ELSE burstCalls = <<>>

\* C3 witness: a burst of at least two keystrokes ended and delivered its
\* last string once.
C3_Witness ==
    /\ burstN >= 2
    /\ quiet = DebounceTicks
    /\ timers = {}
    /\ burstCalls = <<lastOp.arg>>
    /\ searchValue = lastOp.arg

\* C4: after an explicit commit (Enter in the search box, Apply Filters or
\* Enter in a value field, Clear all) no debounce timer is left outstanding
\* and no timer delivers earlier typing afterwards.
C4_CommitLeavesNoTimer ==
    lastOp.op \in {"searchEnter", "apply", "enterValue", "clearAll"}
        => timers = {} /\ late = <<>>

\* C5: Clear all empties the pending search and filters and results in
\* exactly two callback invocations in total, onSearchChange('') and
\* onFiltersChange([]), whatever was pending before.
C5_ClearAllExactlyTwoCalls ==
    lastOp.op = "clearAll" =>
        /\ calls \o late = <<SearchCall(""), FiltersCall(<<>>)>>
        /\ localSearchValue = ""
        /\ pendingFilters = <<>>

\* C6: once the toolbar is unmounted no callback is invoked: the pending
\* debounce timer was cancelled by the cleanup.
C6_NoCallbackAfterUnmount ==
    ~mounted => calls = <<>> /\ late = <<>> /\ timers = {}

\* C6 witness: the toolbar was unmounted while typed text was still waiting
\* for its debounce timer.
C6_Witness ==
    /\ ~mounted
    /\ searchDebounceRef # 0
    /\ localSearchValue # searchValue

----------------------------------------------------------------------------
(* Commits *)

\* C7: a step of Apply Filters, Enter in a value field, a value change or an
\* operator change that invokes both callbacks invokes onSearchChange first.
C7_SearchCallbackFirst ==
    ( /\ lastOp.op \in {"apply", "enterValue", "valueChange", "operatorChange"}
      /\ SearchCallsOf(calls) # <<>>
      /\ FiltersCallsOf(calls) # <<>> )
        => calls[1].cb = "search"

\* C8 as claimed: a pending value edit of a text, number or numberrange filter
\* reaches onFiltersChange only through Apply Filters or Enter in a value
\* field.
C8_OnlyExplicitCommitPassesEdit ==
    flushed # {} => lastOp.op \in {"apply", "enterValue"}

\* the operations that hand the pending list to onFiltersChange
ListCommitOp ==
    \/ lastOp.op \in {"apply", "enterValue", "remove", "operatorChange"}
    \/ lastOp.op = "valueChange" /\ lastOp.type # "text"
    \/ lastOp.op = "modeChange" /\ lastOp.arg = "basic"

\* C8 amended: a pending value edit of a text, number or numberrange filter
\* reaches onFiltersChange only through an operation that commits the pending
\* list: Apply Filters, Enter in a value field, removing a filter, an operator
\* change, a value change of a filter whose type is not text, or a switch to
\* basic mode; typing in a text field, adding a filter, the search box, the
\* debounce timer, a switch to advanced mode and Clear all never pass it.
C8_OnlyListCommitPassesEdit ==
    flushed # {} => ListCommitOp

\* C8 witness: removing one filter handed the unapplied text of another one
\* to onFiltersChange.
C8_Witness ==
    /\ lastOp.op = "remove"
    /\ flushed # {}
    /\ lastOp.id \notin flushed

\* C9 as claimed: an explicit commit invokes onSearchChange once and
\* onFiltersChange once.
C9_CommitInvokesBothOnce ==
    lastOp.op \in {"apply", "enterValue"} =>
        /\ Len(SearchCallsOf(calls)) = 1
        /\ Len(FiltersCallsOf(calls)) = 1

\* C9 amended: an explicit commit (Apply Filters, Enter in a value field)
\* invokes onSearchChange exactly once, with the pending search text, when
\* that text differs from the applied one and not at all otherwise, and
\* then onFiltersChange exactly once, with the whole pending list, when the
\* pending list differs from the applied one and not at all otherwise.
C9_CommitsWhatIsPending ==
    [][(HandlerStep /\ lastOp'.op \in {"apply", "enterValue"}) =>
        /\ SearchCallsOf(calls') =
              (IF localSearchValue # searchValue
               THEN <<SearchCall(localSearchValue)>> ELSE <<>>)
        /\ FiltersCallsOf(calls') =
              (IF pendingFilters # activeFilters
               THEN <<FiltersCall(pendingFilters)>> ELSE <<>>)
        /\ \A m, n \in 1..Len(calls') :
              (calls'[m].cb = "search" /\ calls'[n].cb = "filters") => m < n]_vars

\* C9 witness: Apply Filters committed typed search text and a typed filter
\* value in one step, search first.
C9_Witness ==
    /\ lastOp.op = "apply"
    /\ Len(calls) = 2
    /\ calls[1].cb = "search" /\ calls[1].s # ""
    /\ calls[2].cb = "filters"
    /\ \E k \in 1..Len(calls[2].f) : calls[2].f[k].value = Str("x")

\* C10: when a value change or operator change invokes onFiltersChange while
\* the local search text differs from the applied one, the same step invokes
\* onSearchChange once with the local text and cancels the debounce timer,
\* so the applied search equals the text the user sees.
C10_AutoCommitFlushesSearch ==
    [][( /\ HandlerStep
         /\ lastOp'.op \in {"valueChange", "operatorChange"}
         /\ FiltersCallsOf(calls') # <<>>
         /\ localSearchValue # searchValue ) =>
        /\ SearchCallsOf(calls') = <<SearchCall(localSearchValue)>>
        /\ \A t \in timers' : t.id # searchDebounceRef
        /\ timers' \subseteq timers
        /\ searchValue' = localSearchValue]_vars

\* C10 witness: an operator change made while typed search text was waiting
\* flushed that text and left no timer.
C10_Witness ==
    /\ lastOp.op = "operatorChange"
    /\ Len(calls) = 2
    /\ calls[2] = SearchCall(localSearchValue)
    /\ calls[2].s # ""
    /\ searchDebounceRef # 0
    /\ timers = {}

----------------------------------------------------------------------------
(* The pending filter list *)

\* C11: handleAddFilter with the id of an available filter that is not yet
\* pending appends exactly one filter with that filterId, the definition's
\* default operator (defaultOperator, else the first operator of its operator
\* set) and value '', leaves the filters already pending as they were, and
\* invokes no callback; with an empty or unknown id it changes nothing.
C11_AddAppendsOneUnapplied ==
    [][(HandlerStep /\ lastOp'.op = "add") =>
        /\ calls' = <<>>
        /\ activeFilters' = activeFilters
        /\ searchValue' = searchValue
        /\ localSearchValue' = localSearchValue
        /\ timers' = timers
        /\ IF /\ lastOp'.arg # ""
              /\ \E i \in 1..Len(availableFilters) :
                    availableFilters[i].id = lastOp'.arg
           THEN LET d == CHOOSE x \in Range(availableFilters) : x.id = lastOp'.arg
                    n == Len(pendingFilters)
                    ops == IF d.hasOperators THEN d.operators
                           ELSE DEFAULT_OPERATORS(d.type)
                IN  /\ Len(pendingFilters') = n + 1
                    /\ SubSeq(pendingFilters', 1, n) = pendingFilters
                    /\ pendingFilters'[n + 1].filterId = lastOp'.arg
                    /\ pendingFilters'[n + 1].value = Str("")
                    /\ pendingFilters'[n + 1].operator =
                          (IF d.defaultOperator # "" THEN d.defaultOperator ELSE ops[1])
                    /\ \A k \in 1..n : pendingFilters[k].id # pendingFilters'[n + 1].id
           ELSE pendingFilters' = pendingFilters]_vars

\* C11 witness: a filter whose definition names a default operator other than
\* the first of its operators was added, unapplied, with that operator.
C11_Witness ==
    /\ lastOp.op = "add"
    /\ lastOp.arg = "age"
    /\ Len(pendingFilters) = 1
    /\ pendingFilters[1].operator = "gt"
    /\ pendingFilters[1].value = Str("")
    /\ activeFilters = <<>>
    /\ calls = <<>>

\* C12: handleRemoveFilter deletes the filter with that instance id from the
\* pending list and in the same step invokes onFiltersChange exactly once,
\* with the resulting list; the other filters keep their order and contents.
C12_RemoveCommitsRest ==
    [][(HandlerStep /\ lastOp'.op = "remove") =>
        \E i \in 1..Len(pendingFilters) :
            /\ pendingFilters[i].id = lastOp'.id
            /\ LET rest == SubSeq(pendingFilters, 1, i - 1)
                            \o SubSeq(pendingFilters, i + 1, Len(pendingFilters))
               IN  /\ calls' = <<FiltersCall(rest)>>
                   /\ pendingFilters' = rest
                   /\ \A k \in 1..Len(rest) : rest[k].id # lastOp'.id]_vars

\* C12 witness: of two pending filters one was removed and the other one,
\* with its typed value, went to onFiltersChange.
C12_Witness ==
    /\ lastOp.op = "remove"
    /\ Len(calls) = 1
    /\ calls[1].cb = "filters"
    /\ Len(calls[1].f) = 1
    /\ calls[1].f[1].id # lastOp.id
    /\ calls[1].f[1].value = Str("x")
    /\ pendingFilters = calls[1].f

\* the filters of the pending list with only id, filterId and value
Identity(filters) ==
    [k \in 1..Len(filters) |->
        [id |-> filters[k].id, filterId |-> filters[k].filterId,
         value |-> filters[k].value]]

\* C13 as claimed: a switch from advanced to basic mode with a filter whose
\* operator is not the default operator of its type invokes onFiltersChange
\* exactly once, with every operator the default operator of the filter's
\* type and every id, filterId and value unchanged; a switch to advanced
\* mode invokes no callback.
C13_BasicResetsToTypeDefault ==
    [][(HandlerStep /\ lastOp'.op = "modeChange") =>
        IF lastOp'.arg = "basic"
        THEN ( /\ filterMode = "advanced"
               /\ \E k \in 1..Len(pendingFilters) :
                     pendingFilters[k].operator #
                        DEFAULT_OPERATORS(
                            availableFilters[FindDef(pendingFilters[k].filterId)].type)[1] )
             => /\ Len(calls') = 1
                /\ calls'[1].cb = "filters"
                /\ Identity(calls'[1].f) = Identity(pendingFilters)
                /\ \A k \in 1..Len(calls'[1].f) :
                      calls'[1].f[k].operator =
                        DEFAULT_OPERATORS(
                            availableFilters[FindDef(calls'[1].f[k].filterId)].type)[1]
        ELSE calls' = <<>>]_vars

\* C13 amended: a switch to basic mode invokes onFiltersChange exactly once,
\* with the pending list in which every filter's operator is the default
\* operator of its definition (defaultOperator, else the first operator of
\* the definition's operator set: its own operators, else those of its type)
\* and every id, filterId and value is unchanged; a switch to advanced mode
\* invokes no callback.
C13_BasicResetsToDefinitionDefault ==
    [][(HandlerStep /\ lastOp'.op = "modeChange") =>
        IF lastOp'.arg = "basic"
        THEN /\ Len(calls') = 1
             /\ calls'[1].cb = "filters"
             /\ Identity(calls'[1].f) = Identity(pendingFilters)
             /\ \A k \in 1..Len(calls'[1].f) :
                   LET d == CHOOSE x \in Range(availableFilters) :
                                x.id = calls'[1].f[k].filterId
                       ops == IF d.hasOperators THEN d.operators
                              ELSE DEFAULT_OPERATORS(d.type)
                   IN  calls'[1].f[k].operator =
                          (IF d.defaultOperator # "" THEN d.defaultOperator ELSE ops[1])
        ELSE calls' = <<>>]_vars

\* C13 witness: a switch to basic mode reset an operator the user had chosen
\* and handed the list, with the filter's value kept, to onFiltersChange.
C13_Witness ==
    /\ lastOp.op = "modeChange"
    /\ lastOp.arg = "basic"
    /\ lastOp.val = Bool(TRUE)
    /\ Len(calls) = 1
    /\ Len(calls[1].f) = 1
    /\ calls[1].f[1].value = Arr(<<Str("o1")>>)
    /\ calls[1].f[1].operator = "in"

----------------------------------------------------------------------------
(* Derived indicators *)

\* C14: the unapplied-changes indicator is true exactly when the pending
\* search text differs from the applied one, or some pending filter of type
\* text, number or numberrange has a value structurally different from the
\* value of its applied counterpart, the first applied filter with its
\* filterId (a filter with no applied counterpart differs from it: the
\* counterpart's value is undefined).
C14_UnappliedIndicator ==
    hasUnappliedTextChanges <=>
        \/ localSearchValue # searchValue
        \/ \E k \in 1..Len(pendingFilters) :
              LET pf == pendingFilters[k]
                  same == {j \in 1..Len(activeFilters) :
                              activeFilters[j].filterId = pf.filterId}
              IN  /\ \E d \in Range(availableFilters) :
                        d.id = pf.filterId /\ d.type \in {"text", "number", "numberrange"}
                  /\ \/ same = {}
                     \/ activeFilters[CHOOSE j \in same : \A i \in same : j <= i].value
                            # pf.value

\* C14 witness: the search text is applied, and the indicator is on because
\* the typed value of a text filter differs from the one applied before.
C14_Witness ==
    /\ mounted
    /\ hasUnappliedTextChanges
    /\ localSearchValue = searchValue
    /\ \E k \in 1..Len(pendingFilters) :
          /\ pendingFilters[k].filterId = "name"
          /\ \E j \in 1..Len(activeFilters) :
                /\ activeFilters[j].filterId = "name"
                /\ activeFilters[j].value = Str("x")
                /\ pendingFilters[k].value = Str("")

\* a value the badge should count: anything but null, undefined, '', [] and
\* a range object whose bounds are all ''
Meaningful(value) ==
    /\ value.k \notin {"null", "undef"}
    /\ value # Str("")
    /\ value # Arr(<<>>)
    /\ value.k = "obj" => \E i \in 1..Len(value.vals) : value.vals[i] # Str("")

\* C15: the active filter count is the number of applied filters that have
\* operator 'today' or a meaningful value.
C15_CountsMeaningfulFilters ==
    activeFilterCount =
        Cardinality({j \in 1..Len(activeFilters) :
                        \/ activeFilters[j].operator = "today"
                        \/ Meaningful(activeFilters[j].value)})

\* every filter of the list references an available filter and carries an
\* operator of that filter's operator set
WellFormed(filters) ==
    \A k \in 1..Len(filters) :
        \E d \in Range(availableFilters) :
            /\ d.id = filters[k].filterId
            /\ filters[k].operator \in
                  Range(IF d.hasOperators THEN d.operators ELSE DEFAULT_OPERATORS(d.type))

\* C16: from a well-formed applied list, every list the toolbar holds as
\* pending or passes to onFiltersChange is well-formed.
C16_ListsStayWellFormed ==
    /\ WellFormed(pendingFilters)
    /\ \A n \in 1..Len(calls) : calls[n].cb = "filters" => WellFormed(calls[n].f)

----------------------------------------------------------------------------
(* useFilterController *)

\* C17 as claimed: after applyFilters and the parent adopting the committed
\* list, isActive is true.
C17_ApplyThenActive ==
    lastOp.op = "applyFilters" => isActive

\* C17 amended: after applyFilters of a controller that represents at least
\* one triple, and the parent adopting the committed list, isActive is true;
\* a controller that represents no triple is never active.
C17_ApplyThenActiveUnlessEmpty ==
    /\ (lastOp.op = "applyFilters" /\ Len(representedFilters) > 0) => isActive
    /\ Len(representedFilters) = 0 => ~isActive

\* C17 witness: applyFilters replaced the toolbar's filter of a represented
\* filterId, kept an unrelated one, and the controller is active.
C17_Witness ==
    /\ lastOp.op = "applyFilters"
    /\ lastOp.val = Bool(FALSE)
    /\ Len(representedFilters) = 2
    /\ Len(activeFilters) = 3
    /\ activeFilters[1].id = "f1"
    /\ isActive

\* C18 as claimed: applyFilters commits, in one onFilterChange call, the
\* applied list without the filters of represented filterIds followed by one
\* new filter per represented triple, and the committed list holds at most
\* one filter per represented filterId.
C18_ApplyAtMostOnePerFilterId ==
    [][lastOp'.op = "applyFilters" =>
        /\ Len(calls') = 1
        /\ calls'[1].cb = "filters"
        /\ LET list == calls'[1].f
               kept == Len(list) - Len(representedFilters)
           IN  /\ SubSeq(list, 1, kept) =
                     SelectSeq(activeFilters,
                               LAMBDA af : \A i \in 1..Len(representedFilters) :
                                             representedFilters[i].filterId # af.filterId)
               /\ \A i \in 1..Len(representedFilters) :
                     /\ list[kept + i].filterId = representedFilters[i].filterId
                     /\ list[kept + i].operator = representedFilters[i].operator
                     /\ list[kept + i].value = representedFilters[i].value
               /\ \A i \in 1..Len(representedFilters) :
                     Cardinality({k \in 1..Len(list) :
                                    list[k].filterId = representedFilters[i].filterId}) <= 1
      ]_vars

\* C18 amended: applyFilters commits, in one onFilterChange call, the applied
\* list without the filters of represented filterIds followed by one new
\* filter per represented triple, in the order of the triples; the committed
\* list holds, of each represented filterId, exactly as many filters as there
\* are triples with that filterId, all of them new.
C18_ApplyOnePerTriple ==
    [][lastOp'.op = "applyFilters" =>
        /\ Len(calls') = 1
        /\ calls'[1].cb = "filters"
        /\ LET list == calls'[1].f
               kept == Len(list) - Len(representedFilters)
           IN  /\ SubSeq(list, 1, kept) =
                     SelectSeq(activeFilters,
                               LAMBDA af : \A i \in 1..Len(representedFilters) :
                                             representedFilters[i].filterId # af.filterId)
               /\ \A i \in 1..Len(representedFilters) :
                     /\ list[kept + i].filterId = representedFilters[i].filterId
                     /\ list[kept + i].operator = representedFilters[i].operator
                     /\ list[kept + i].value = representedFilters[i].value
               /\ \A i \in 1..Len(representedFilters) :
                     {k \in 1..Len(list) :
                        list[k].filterId = representedFilters[i].filterId}
                     = {kept + j : j \in {n \in 1..Len(representedFilters) :
                            representedFilters[n].filterId
                                = representedFilters[i].filterId}}
      ]_vars

\* C18 witness: a controller with two triples of one filterId applied them
\* after the toolbar's two filters: both new filters are in the applied list.
C18_Witness ==
    /\ lastOp.op = "applyFilters"
    /\ ctlPrev = "mount"
    /\ Len(activeFilters) = 4
    /\ activeFilters[3].filterId = "price" /\ activeFilters[3].operator = "gte"
    /\ activeFilters[4].filterId = "price" /\ activeFilters[4].operator = "lte"

\* C19: removeFilters commits, in one call, a list with no filter of a
\* represented filterId that holds every other applied filter, unchanged and
\* in the order of the applied list.
C19_RemoveKeepsOthers ==
    [][lastOp'.op = "removeFilters" =>
        /\ Len(calls') = 1
        /\ calls'[1].cb = "filters"
        /\ \A k \in 1..Len(calls'[1].f) : \A i \in 1..Len(representedFilters) :
              calls'[1].f[k].filterId # representedFilters[i].filterId
        /\ calls'[1].f =
              SelectSeq(activeFilters,
                        LAMBDA af : \A i \in 1..Len(representedFilters) :
                                      representedFilters[i].filterId # af.filterId)
        /\ activeFilters' = calls'[1].f]_vars

\* C19 witness: the controller was active, removeFilters dropped its filters
\* and the toolbar's unrelated filter is still applied.
C19_Witness ==
    /\ lastOp.op = "removeFilters"
    /\ lastOp.val = Bool(TRUE)
    /\ ctlPrev = "applyFilters"
    /\ Len(representedFilters) = 2
    /\ Len(activeFilters) = 1
    /\ activeFilters[1].id = "f1"

\* C20: a removeFilters that follows a removeFilters commits the list the
\* first one committed: the second call changes nothing.
C20_RemoveIdempotent ==
    [][(lastOp.op = "removeFilters" /\ lastOp'.op = "removeFilters") =>
        /\ calls' = <<FiltersCall(activeFilters)>>
        /\ calls'[1].f = calls[1].f
        /\ activeFilters' = activeFilters]_vars

\* C20 witness: two removeFilters in a row, the first of which removed the
\* controller's filters, with an unrelated filter left applied.
C20_Witness ==
    /\ lastOp.op = "removeFilters"
    /\ ctlPrev = "removeFilters"
    /\ Len(representedFilters) > 0
    /\ Len(activeFilters) = 1
    /\ lastOp.val = Bool(FALSE)
    /\ calls = <<FiltersCall(activeFilters)>>

\* C21: isActive is true exactly when some represented triple has an applied
\* filter with the same filterId, the same operator and the same value,
\* element for element and in the same order; with no triple it is false.
C21_ActiveIffTripleApplied ==
    isActive <=>
        \E rf \in Range(representedFilters) : \E af \in Range(activeFilters) :
            /\ af.filterId = rf.filterId
            /\ af.operator = rf.operator
            /\ af.value = rf.value

\* C21 witness: the only applied filter of a represented filterId holds the
\* represented array in another order, and the controller is not active.
C21_Witness ==
    /\ ~isActive
    /\ representedFilters = <<StatusOpen, TagsBoth>>
    /\ Len(activeFilters) = 1
    /\ activeFilters[1].filterId = "tags"
    /\ activeFilters[1].operator = "in"
    /\ activeFilters[1].value = Arr(<<Str("o2"), Str("o1")>>)

\* C22: toggleFilters makes exactly one commit, that of removeFilters when
\* the controller is active and that of applyFilters otherwise; for a
\* controller with at least one triple every toggle flips isActive.
C22_ToggleFlips ==
    [][lastOp'.arg = "toggle" =>
        /\ Len(calls') = 1
        /\ calls'[1].cb = "filters"
        /\ LET others == SelectSeq(activeFilters,
                            LAMBDA af : \A i \in 1..Len(representedFilters) :
                                          representedFilters[i].filterId # af.filterId)
           IN  IF isActive
               THEN lastOp'.op = "removeFilters" /\ calls'[1].f = others
               ELSE /\ lastOp'.op = "applyFilters"
                    /\ Len(calls'[1].f) = Len(others) + Len(representedFilters)
                    /\ SubSeq(calls'[1].f, 1, Len(others)) = others
        /\ Len(representedFilters) > 0 => (isActive' = ~isActive)]_vars

\* C22 witness: a toggle applied the controller's filters and the next
\* toggle removed them again.
C22_Witness ==
    /\ lastOp.arg = "toggle"
    /\ lastOp.op = "removeFilters"
    /\ ctlPrev = "applyFilters"
    /\ lastOp.val = Bool(TRUE)
    /\ ~isActive
    /\ Len(activeFilters) = 1

----------------------------------------------------------------------------
(* Export dialog *)

\* C23: with the email method and an empty address Export is blocked: no
\* export callback is invoked and the dialog stays open as it is; with the
\* download method, or the email method and an address, Export invokes the
\* export callback exactly once, closes the dialog and resets it to method
\* 'download' and an empty address.
C23_ExportBlockedWithoutAddress ==
    [][lastOp'.op = "export" =>
        IF exportMethod = "email" /\ email = ""
        THEN /\ exports' = <<>>
             /\ exportDialogOpen' = exportDialogOpen
             /\ exportDialogOpen'
             /\ exportMethod' = "email"
             /\ email' = ""
        ELSE /\ Len(exports') = 1
             /\ exports'[1].type = exportType
             /\ exports'[1].sendEmail = (exportMethod = "email")
             /\ exports'[1].email =
                   (IF exportMethod = "email" THEN Str(email) ELSE Undefined)
             /\ ~exportDialogOpen'
             /\ exportMethod' = "download"
             /\ email' = ""]_vars

\* C23 witness: Export was pressed with the email method and no address:
\* nothing was exported and the dialog is still open.
C23_Witness ==
    /\ lastOp.op = "export"
    /\ exportDialogOpen
    /\ exportMethod = "email"
    /\ email = ""
    /\ exports = <<>>

----------------------------------------------------------------------------
(* The toolbar next to other writers of the applied list *)

\* a filter whose filterId matches no entry of availableFilters
Orphan(f) == \A d \in Range(availableFilters) : d.id # f.filterId

\* C24: a pending filter whose filterId matches no available filter has no
\* row, does not count for the unapplied-changes indicator, and keeps its
\* operator and value through a switch to basic mode, in the pending list
\* and in the list given to onFiltersChange.
C24_OrphanIsSoftFailure ==
    [][ /\ \A i \in 1..Len(pendingFilters) :
              Orphan(pendingFilters[i]) => ~RowShown(i)
        /\ hasUnappliedTextChanges =>
              \/ localSearchValue # searchValue
              \/ \E i \in 1..Len(pendingFilters) :
                    /\ ~Orphan(pendingFilters[i])
                    /\ JsonStringify(pendingFilters[i].value)
                          # JsonStringify(AppliedValueOf(pendingFilters[i].filterId))
        /\ (HandlerStep /\ lastOp'.op = "modeChange" /\ lastOp'.arg = "basic") =>
              /\ Len(calls') = 1
              /\ Len(calls'[1].f) = Len(pendingFilters)
              /\ \A i \in 1..Len(pendingFilters) :
                    Orphan(pendingFilters[i]) =>
                        /\ calls'[1].f[i] = pendingFilters[i]
                        /\ pendingFilters'[i] = pendingFilters[i]
      ]_vars

\* C24 witness: a switch to basic mode with a filter of the controller, of
\* which the toolbar has no definition, next to a filter of the toolbar's own.
C24_Witness ==
    /\ lastOp.op = "modeChange"
    /\ lastOp.arg = "basic"
    /\ filtersExpanded
    /\ Len(calls) = 1
    /\ \E k \in 1..Len(calls[1].f) :
          calls[1].f[k].filterId = "assignee" /\ Orphan(calls[1].f[k])
    /\ \E k \in 1..Len(calls[1].f) : calls[1].f[k].filterId = "name"
    /\ ~hasUnappliedTextChanges

----------------------------------------------------------------------------
(* Two controllers *)

\* the filterIds both controllers represent
SharedIds == FilterIdsOf(representedFilters) \cap FilterIdsOf(coRepresentedFilters)

\* the filters a controller creates, whatever Date.now() gave
CreatedBy(who) ==
    UNION {Range(NewFiltersFor(RepresentedOf(who), now)) : now \in 1..MaxNow}

\* C25: when two controllers represent the same filterId and call applyFilters
\* one after the other, the second on the list the first committed, every
\* applied filter of a shared filterId is afterwards one the second created.
C25_LastWriteWins ==
    (/\ lastOp.op = "applyFilters"
     /\ ctlPrev = <<OtherController(lastOp.id), "applyFilters">>)
    => \A j \in 1..Len(activeFilters) :
          activeFilters[j].filterId \in SharedIds
          => activeFilters[j] \in CreatedBy(lastOp.id)

\* C25 witness: B applied after A, they share a filterId with different values,
\* and the applied list holds B's filter of it.
C25_Witness ==
    /\ lastOp.op = "applyFilters"
    /\ lastOp.id = "B"
    /\ ctlPrev = <<"A", "applyFilters">>
    /\ SharedIds # {}
    /\ CreatedBy("A") \cap CreatedBy("B") = {}
    /\ \E j \in 1..Len(activeFilters) :
          /\ activeFilters[j].filterId \in SharedIds
          /\ activeFilters[j] \in CreatedBy("B")

Disjoint ==
    FilterIdsOf(representedFilters) \cap FilterIdsOf(coRepresentedFilters) = {}

\* one controller called applyFilters, removeFilters or toggleFilters alone
SequentialStep == lastOp'.op \in {"applyFilters", "removeFilters"}

\* C26 (as stated): with disjoint represented filterIds, an operation of one
\* controller leaves isActive of the other as it was, and once both have
\* called applyFilters, each on the list before it, both report isActive.
C26_DisjointDoNotInterfere ==
    [][(Disjoint /\ SequentialStep) =>
          /\ IsActiveFor(RepresentedOf(OtherController(lastOp'.id)), activeFilters')
                = IsActiveFor(RepresentedOf(OtherController(lastOp'.id)), activeFilters)
          /\ (/\ lastOp'.op = "applyFilters"
              /\ lastOp = Op("applyFilters", "", OtherController(lastOp'.id),
                             NoVal, lastOp.arg))
             => /\ IsActiveFor(representedFilters, activeFilters')
                /\ IsActiveFor(coRepresentedFilters, activeFilters')]_vars

\* C26 (amended): the same, where a controller that represents no filter
\* never reports isActive.
C26_DisjointDoNotInterfereUnlessEmpty ==
    [][(Disjoint /\ SequentialStep) =>
          /\ IsActiveFor(RepresentedOf(OtherController(lastOp'.id)), activeFilters')
                = IsActiveFor(RepresentedOf(OtherController(lastOp'.id)), activeFilters)
          /\ (/\ lastOp'.op = "applyFilters"
              /\ lastOp = Op("applyFilters", "", OtherController(lastOp'.id),
                             NoVal, lastOp.arg))
             => \A who \in Controllers :
                   IsActiveFor(RepresentedOf(who), activeFilters')
                      = (RepresentedOf(who) # <<>>)]_vars

\* C26 witness: disjoint controllers, both with filters, B applied after A,
\* the list holds filters of both and both are active.
C26_Witness ==
    /\ Disjoint
    /\ representedFilters # <<>>
    /\ coRepresentedFilters # <<>>
    /\ lastOp.op = "applyFilters"
    /\ lastOp.id = "B"
    /\ ctlPrev = <<"A", "applyFilters">>
    /\ IsActiveFor(representedFilters, activeFilters)
    /\ IsActiveFor(coRepresentedFilters, activeFilters)

\* the applied list holds a filter for every triple the controller represents
HoldsFiltersOf(who) ==
    \A i \in 1..Len(RepresentedOf(who)) : \E j \in 1..Len(activeFilters) :
        /\ activeFilters[j].filterId = RepresentedOf(who)[i].filterId
        /\ activeFilters[j].operator = RepresentedOf(who)[i].operator
        /\ activeFilters[j].value = RepresentedOf(who)[i].value

\* C27: when two controllers with disjoint represented filterIds both call
\* applyFilters in one event-handling turn, on the same activeFilters, the
\* applied list after both commits holds the filters of both.
C27_SameTurnKeepsBoth ==
    (lastOp.op = "applyBoth" /\ Disjoint)
    => (HoldsFiltersOf("A") /\ HoldsFiltersOf("B"))

----------------------------------------------------------------------------
(* The sync effects *)

\* C28: while the toolbar is mounted, a step that changes the applied filter
\* list (a toolbar commit, a controller commit, a parent reset) leaves the
\* pending list equal to the new applied list, a step that changes searchValue
\* leaves the local search text equal to it, and after an operation that
\* handed the parent a filter list pending filters equal applied filters.
C28_PendingFollowsApplied ==
    [][mounted' =>
          /\ activeFilters' # activeFilters => pendingFilters' = activeFilters'
          /\ searchValue' # searchValue => localSearchValue' = searchValue'
          /\ FiltersCallsOf(calls') # <<>> => pendingFilters' = activeFilters']_vars

\* C28 witness: the controller committed a filter the toolbar has no definition
\* for while a search text was applied; the pending list holds that filter and
\* equals the applied list.
C28_Witness ==
    /\ mounted
    /\ lastOp.op = "applyFilters"
    /\ FiltersCallsOf(calls) # <<>>
    /\ \E j \in 1..Len(pendingFilters) : pendingFilters[j].filterId = "assignee"
    /\ Len(pendingFilters) > 1
    /\ pendingFilters = activeFilters
    /\ searchValue # ""
    /\ localSearchValue = searchValue

----------------------------------------------------------------------------
(* The filter rows *)

\* C29: for every pending filter shown in the panel, in basic and in advanced
\* mode, the operator handed to the value field is the filter's stored
\* operator, the one in the operator selector and in the committed list.
C29_FieldGetsStoredOperator ==
    \A i \in 1..Len(pendingFilters) :
        RowShown(i) =>
            effectiveOperator(DefOf(i), pendingFilters[i]) = pendingFilters[i].operator

----------------------------------------------------------------------------
(* Menu preference store *)

\* C30: after resetMenuPreferences the stored pinned list is the original
\* eleven default menu ids with the order positions 0..10, whatever
\* addPinnedMenu, removePinnedMenu and updateMenuOrder calls came before, also
\* those made while nothing was stored.
C30_ResetRestoresDefaults ==
    lastOp.op = "resetMenuPreferences"
    => /\ localStorage.present
       /\ localStorage.pinnedMenuIds = DefaultPinnedMenus
       /\ localStorage.menuOrder =
             [i \in 1..11 |-> [key |-> DefaultPinnedMenus[i], val |-> i - 1]]

====
